---- MODULE Spec2Model ----
(***************************************************************************)
(* A model of the Threads crawler: scripts/threads_scraper.py (the         *)
(* Fetcher) and scripts/generate_report.py (the Reporter).                 *)
(*                                                                         *)
(* Three programs are modelled over one set of variables:                  *)
(*   Spec        threads_scraper.py run as __main__;                       *)
(*   SpecScroll  scroll_for_content(page, max_scrolls, pause_ms) called    *)
(*               with an arbitrary max_scrolls >= 0;                       *)
(*   SpecReport  generate_report.py run as __main__.                       *)
(*                                                                         *)
(* Every awaited Playwright call either returns or raises; what it raises  *)
(* is drawn from Exceptions.  Strings that are page text are represented   *)
(* by their shape (source element, leading whitespace, length of the       *)
(* rest), which is what trim(), length and substring() depend on.          *)
(***************************************************************************)
EXTENDS Integers, Sequences, FiniteSets, TLC

VARIABLES
    entry,          \* which program runs: "main", "scroll_for_content", "generate_reports"
    pc,             \* the position of the running program
    playwright,     \* the async_playwright() context: "none", "running", "stopped"
    browser,        \* "none", "launched", "closed"
    close_called,   \* browser.close() has been called
    exc,            \* the exception being handled or propagating, or NoExc
    data,           \* main's local `data` (the CrawlResult), or NoData
    output_file,    \* output/threads_<timestamp>.json
    latest_file,    \* output/latest.json
    screenshots,    \* the screenshots written
    result,         \* what main() returned
    exit_code,      \* the process exit code once pc = "exited", NoCode before
    selector,       \* handle_popups: index of the selector being tried
    max_scrolls,    \* scroll_for_content's argument
    i,              \* scroll_for_content's loop variable
    prev_height,    \* scroll_for_content's prev_height
    scrolls,        \* window.scrollTo calls performed
    measured,       \* the heights document.body.scrollHeight returned, in order
    document,       \* texts of the [data-pressable-container] elements at extraction
    raised,         \* <<step, handler>> for every exception raised so far
    report_data,    \* generate_reports' local `data`
    html_file,      \* reports/index.html
    md_file         \* reports/report.md

vars == <<entry, pc, playwright, browser, close_called, exc, data, output_file,
          latest_file, screenshots, result, exit_code, selector, max_scrolls, i,
          prev_height, scrolls, measured, document, raised, report_data,
          html_file, md_file>>

fetcher_vars == <<playwright, browser, close_called, data, output_file,
                  screenshots, result, exit_code, selector, document>>
scroll_vars == <<max_scrolls, i, prev_height, scrolls, measured>>
report_vars == <<report_data, html_file, md_file>>

----------------------------------------------------------------------------
(* Bounds of the model *)

\* scroll_for_content is tried with max_scrolls in 0..MaxScrollsArg
MaxScrollsArg == 6
\* the extracted document holds at most MaxElems post elements
MaxElems == 52
\* the Reporter is given posts lists of at most MaxReportPosts entries
MaxReportPosts == 21

(* Program constants *)

CONFIG_max_scrolls == 5
NumPopupSelectors == 6
MinPostLength == 10
MaxPostLength == 500
MaxPosts == 50
HtmlPostsShown == 20
HtmlPostChars == 300
MdPostsShown == 10
MdPostChars == 200
BytesPerKB == 1024

CONFIG_url == "https://www.threads.com/?hl=ko"

Min(a, b) == IF a < b THEN a ELSE b

----------------------------------------------------------------------------
(* Exceptions *)

NoExc == [type |-> "none", args |-> <<>>]

\* PlaywrightTimeout (a playwright Error), another playwright Error, a Python
\* exception constructed without arguments, and a BaseException that is not an
\* Exception (asyncio.CancelledError).
Exceptions ==
    { [type |-> "TimeoutError", args |-> <<"Timeout 60000ms exceeded.">>],
      [type |-> "Error", args |-> <<"Target page, context or browser has been closed">>],
      [type |-> "Exception", args |-> <<>>],
      [type |-> "CancelledError", args |-> <<>>] }

\* str(e) of an exception with zero or one argument
StrOfException(e) == IF Len(e.args) = 0 THEN "" ELSE e.args[1]

\* handle_popups: `except:`
PopupCatches(e) == TRUE

\* main: `except PlaywrightTimeout:` around wait_for_load_state
NetworkIdleCatchesNothing(e) == FALSE
NetworkIdleCatches(e) == e.type = "TimeoutError"

\* main: `except Exception as e:`
MainCatches(e) == e.type \in {"TimeoutError", "Error", "Exception"}

\* main: `except:` around the error screenshot
ErrorScreenshotCatches(e) == TRUE

----------------------------------------------------------------------------
(* Page text and extraction *)

\* A text: element `src`'s innerText, `lead` whitespace characters followed by
\* `len` characters that start and end with a non-whitespace character.
NoText == [src |-> 0, lead |-> 0, len |-> 0, defined |-> FALSE]

\* JavaScript String.prototype.trim
Trim(t) == [t EXCEPT !.lead = 0]

\* JavaScript String.prototype.length
Length(t) == t.lead + t.len

\* JavaScript text.substring(0, n)
Substring(t, n) ==
    IF t.lead >= n THEN [t EXCEPT !.lead = n, !.len = 0]
    ELSE [t EXCEPT !.len = Min(t.len, n - t.lead)]

\* `el.innerText?.trim()`
TrimmedInnerText(el) == IF el.defined THEN Trim(el) ELSE NoText

\* `text && text.length > 10`
Qualifies(text) == text.defined /\ Length(text) > 0 /\ Length(text) > MinPostLength

\* `posts.slice(0, 50)`
SliceAll(posts) == posts
Slice(posts) == SubSeq(posts, 1, Min(Len(posts), MaxPosts))

\* The forEach over the matching elements, from element k on
RECURSIVE ForEach(_, _, _)
ForEach(doc, k, posts) ==
    IF k > Len(doc) THEN posts
    ELSE LET text == TrimmedInnerText(doc[k])
         IN ForEach(doc, k + 1,
                    IF Qualifies(text)
                    THEN Append(posts, Substring(text, MaxPostLength))
                    ELSE posts)

\* The script extract_content evaluates in the page
EvaluatePosts(doc) == Slice(ForEach(doc, 1, <<>>))

\* The innerText values an element may have
Texts ==
    { [lead |-> 0, len |-> 0, defined |-> FALSE],
      [lead |-> 3, len |-> 0, defined |-> TRUE],
      [lead |-> 2, len |-> 10, defined |-> TRUE],
      [lead |-> 0, len |-> 11, defined |-> TRUE],
      [lead |-> 1, len |-> 500, defined |-> TRUE],
      [lead |-> 0, len |-> 501, defined |-> TRUE] }

\* A document of n elements: odd elements carry text a, even ones text b
DocOf(n, a, b) ==
    [k \in 1..n |->
        LET t == IF k % 2 = 1 THEN a ELSE b
        IN [src |-> k, lead |-> t.lead, len |-> t.len, defined |-> t.defined]]

Docs == { DocOf(n, a, b) : n \in 0..MaxElems, a \in Texts, b \in Texts }

HtmlLengths == {256, 2048}

\* The heights document.body.scrollHeight may return
Heights == {1000, 2000, 3000}

----------------------------------------------------------------------------
(* The CrawlResult *)

NoData == [unassigned |-> TRUE]
NoFile == [absent |-> TRUE]
NoCode == "none"

\* extract_content's return value, with main's data['status'] = 'success'
SuccessData(doc, html_length) ==
    LET content == EvaluatePosts(doc)
    IN [url |-> CONFIG_url,
        title |-> "Threads",
        scraped_at |-> "utcnow",
        posts_count |-> Len(content),
        posts |-> content,
        html_length |-> html_length,
        status |-> "success"]

\* main's except branch
ErrorData(e) ==
    [url |-> CONFIG_url,
     scraped_at |-> "utcnow",
     status |-> "error",
     error |-> StrOfException(e)]

\* `exit(0 if result.get('status') == 'success' else 1)`
ExitCodeIgnoringValue(r) == IF "status" \in DOMAIN r THEN 0 ELSE 1
ExitCode(r) == IF "status" \in DOMAIN r /\ r.status = "success" THEN 0 ELSE 1

----------------------------------------------------------------------------
(* Initial states *)

InitCommon ==
    /\ playwright = "none"
    /\ browser = "none"
    /\ close_called = FALSE
    /\ exc = NoExc
    /\ data = NoData
    /\ output_file = NoFile
    /\ screenshots = {}
    /\ result = NoData
    /\ exit_code = NoCode
    /\ selector = 1
    /\ i = 0
    /\ prev_height = -1
    /\ scrolls = 0
    /\ measured = <<>>
    /\ document = <<>>
    /\ raised = {}
    /\ report_data = NoData
    /\ html_file = NoFile
    /\ md_file = NoFile

\* threads_scraper.py as __main__: asyncio.run(main())
Init ==
    /\ entry = "main"
    /\ pc = "start"
    /\ max_scrolls = CONFIG_max_scrolls
    /\ latest_file = NoFile
    /\ InitCommon

\* scroll_for_content(page, max_scrolls, pause_ms)
InitScroll ==
    /\ entry = "scroll_for_content"
    /\ pc = "scroll_for"
    /\ max_scrolls \in 0..MaxScrollsArg
    /\ latest_file = NoFile
    /\ InitCommon

----------------------------------------------------------------------------
(* Raising inside main's try block, or inside scroll_for_content called alone *)

\* Where an exception raised by `step` goes, and who handles it
Handler(e) ==
    IF entry # "main" THEN "none"
    ELSE IF MainCatches(e) THEN "main" ELSE "none"

TryRaise(step, e) ==
    /\ raised' = raised \cup {<<step, Handler(e)>>}
    /\ exc' = e
    /\ pc' = IF entry # "main" THEN "raised"
             ELSE IF MainCatches(e) THEN "except" ELSE "finally"

----------------------------------------------------------------------------
(* main: setup, outside the try block *)

\* mkdir of the two directories, the run's timestamp, `async with async_playwright()`
Start ==
    /\ pc = "start"
    /\ playwright' = "running"
    /\ pc' = "launch"
    /\ UNCHANGED <<entry, browser, close_called, exc, data, output_file, latest_file,
                   screenshots, result, exit_code, selector, document, raised>>
    /\ UNCHANGED <<scroll_vars, report_vars>>

\* An exception raised before the try block leaves the `async with` block
SetupRaise(step, e) ==
    /\ raised' = raised \cup {<<step, "none">>}
    /\ exc' = e
    /\ pc' = "playwright_exit"

\* create_browser_context: playwright.chromium.launch(...)
Launch ==
    /\ pc = "launch"
    /\ \/ /\ browser' = "launched"
          /\ pc' = "new_context"
          /\ UNCHANGED <<exc, raised>>
       \/ /\ \E e \in Exceptions : SetupRaise("launch", e)
          /\ UNCHANGED browser
    /\ UNCHANGED <<entry, playwright, close_called, data, output_file, latest_file,
                   screenshots, result, exit_code, selector, document>>
    /\ UNCHANGED <<scroll_vars, report_vars>>

\* create_browser_context: browser.new_context(...)
NewContext ==
    /\ pc = "new_context"
    /\ \/ /\ pc' = "new_page"
          /\ UNCHANGED <<exc, raised>>
       \/ \E e \in Exceptions : SetupRaise("new_context", e)
    /\ UNCHANGED <<entry, fetcher_vars, latest_file, scroll_vars, report_vars>>

\* main: context.new_page()
NewPage ==
    /\ pc = "new_page"
    /\ \/ /\ pc' = "goto"
          /\ UNCHANGED <<exc, raised>>
       \/ \E e \in Exceptions : SetupRaise("new_page", e)
    /\ UNCHANGED <<entry, fetcher_vars, latest_file, scroll_vars, report_vars>>

----------------------------------------------------------------------------
(* main: the try block *)

\* page.goto(url, wait_until='domcontentloaded', timeout=...)
Goto ==
    /\ pc = "goto"
    /\ \/ /\ pc' = "popup_is_visible"
          /\ UNCHANGED <<exc, raised>>
       \/ \E e \in Exceptions : TryRaise("goto", e)
    /\ UNCHANGED <<entry, fetcher_vars, latest_file, scroll_vars, report_vars>>

\* handle_popups: the for loop moves to the next selector, or returns
NextSelector ==
    IF selector < NumPopupSelectors
    THEN selector' = selector + 1 /\ pc' = "popup_is_visible"
    ELSE selector' = selector /\ pc' = "wait_networkidle"

\* handle_popups: an exception inside the loop body's try
PopupRaise(e) ==
    IF PopupCatches(e)
    THEN /\ raised' = raised \cup {<<"handle_popups", "handle_popups">>}
         /\ NextSelector
         /\ UNCHANGED exc
    ELSE /\ TryRaise("handle_popups", e)
         /\ UNCHANGED selector

\* handle_popups: page.locator(selector).first, element.is_visible(timeout=1000)
PopupIsVisible ==
    /\ pc = "popup_is_visible"
    /\ \/ /\ pc' = "popup_click"
          /\ UNCHANGED <<selector, exc, raised>>
       \/ /\ NextSelector
          /\ UNCHANGED <<exc, raised>>
       \/ \E e \in Exceptions : PopupRaise(e)
    /\ UNCHANGED <<entry, playwright, browser, close_called, data, output_file,
                   latest_file, screenshots, result, exit_code, document>>
    /\ UNCHANGED <<scroll_vars, report_vars>>

\* handle_popups: element.click()
PopupClick ==
    /\ pc = "popup_click"
    /\ \/ /\ pc' = "popup_wait"
          /\ UNCHANGED <<selector, exc, raised>>
       \/ \E e \in Exceptions : PopupRaise(e)
    /\ UNCHANGED <<entry, playwright, browser, close_called, data, output_file,
                   latest_file, screenshots, result, exit_code, document>>
    /\ UNCHANGED <<scroll_vars, report_vars>>

\* handle_popups: page.wait_for_timeout(500)
PopupWait ==
    /\ pc = "popup_wait"
    /\ \/ /\ NextSelector
          /\ UNCHANGED <<exc, raised>>
       \/ \E e \in Exceptions : PopupRaise(e)
    /\ UNCHANGED <<entry, playwright, browser, close_called, data, output_file,
                   latest_file, screenshots, result, exit_code, document>>
    /\ UNCHANGED <<scroll_vars, report_vars>>

\* page.wait_for_load_state('networkidle', timeout=15000) in its own try
WaitNetworkIdle ==
    /\ pc = "wait_networkidle"
    /\ \/ /\ pc' = "screenshot_before"
          /\ UNCHANGED <<exc, raised>>
       \/ \E e \in Exceptions :
            IF NetworkIdleCatches(e)
            THEN /\ raised' = raised \cup {<<"wait_networkidle", "wait_networkidle">>}
                 /\ pc' = "screenshot_before"
                 /\ UNCHANGED exc
            ELSE TryRaise("wait_networkidle", e)
    /\ UNCHANGED <<entry, fetcher_vars, latest_file, scroll_vars, report_vars>>

\* page.screenshot(before_scroll_<timestamp>.png); then scroll_for_content is entered
ScreenshotBefore ==
    /\ pc = "screenshot_before"
    /\ \/ /\ screenshots' = screenshots \cup {"before_scroll"}
          /\ pc' = "scroll_for"
          /\ UNCHANGED <<exc, raised>>
       \/ /\ \E e \in Exceptions : TryRaise("screenshot_before", e)
          /\ UNCHANGED screenshots
    /\ UNCHANGED <<entry, playwright, browser, close_called, data, output_file,
                   latest_file, result, exit_code, selector, document>>
    /\ UNCHANGED <<scroll_vars, report_vars>>

----------------------------------------------------------------------------
(* scroll_for_content *)

\* `for i in range(max_scrolls)`: another value is left
RangeOneMore(k, n) == k <= n
RangeHasNext(k, n) == k < n

\* `new_height == prev_height`
NeverEqual(new_height, prev) == FALSE
HeightUnchanged(new_height, prev) == new_height = prev

\* Leaving scroll_for_content: back in main, or returned to the caller
ScrollReturn == IF entry = "main" THEN "screenshot_after" ELSE "returned"

\* In main the call's frame is dropped on return and what the call did to the page
\* is no longer looked at; called alone, the final values stay to be inspected.
DropFrame ==
    IF entry = "main"
    THEN /\ i' = 0
         /\ prev_height' = -1
         /\ scrolls' = 0
         /\ measured' = <<>>
         /\ UNCHANGED max_scrolls
    ELSE UNCHANGED scroll_vars

\* The for statement: start the next iteration, or leave the loop
ScrollFor ==
    /\ pc = "scroll_for"
    /\ IF RangeHasNext(i, max_scrolls)
       THEN pc' = "scroll_to" /\ UNCHANGED scroll_vars
       ELSE pc' = ScrollReturn /\ DropFrame
    /\ UNCHANGED <<entry, fetcher_vars, latest_file, exc, raised, report_vars>>

\* page.evaluate("window.scrollTo(0, document.body.scrollHeight)") without the scroll
ScrollToSkipped ==
    /\ pc = "scroll_to"
    /\ pc' = "scroll_pause"
    /\ UNCHANGED <<entry, fetcher_vars, latest_file, exc, raised, scroll_vars, report_vars>>

\* page.evaluate("window.scrollTo(0, document.body.scrollHeight)")
ScrollTo ==
    /\ pc = "scroll_to"
    /\ \/ /\ scrolls' = scrolls + 1
          /\ pc' = "scroll_pause"
          /\ UNCHANGED <<exc, raised, max_scrolls, i, prev_height, measured>>
       \/ /\ \E e \in Exceptions : TryRaise("scroll_for_content", e)
          /\ DropFrame
    /\ UNCHANGED <<entry, fetcher_vars, latest_file, report_vars>>

\* page.wait_for_timeout(pause_ms)
ScrollPause ==
    /\ pc = "scroll_pause"
    /\ \/ /\ pc' = "scroll_measure"
          /\ UNCHANGED <<exc, raised, scroll_vars>>
       \/ /\ \E e \in Exceptions : TryRaise("scroll_for_content", e)
          /\ DropFrame
    /\ UNCHANGED <<entry, fetcher_vars, latest_file, report_vars>>

\* new_height = page.evaluate("document.body.scrollHeight"), the comparison,
\* and either the break or `prev_height = new_height` and the end of the iteration
ScrollMeasure ==
    /\ pc = "scroll_measure"
    /\ \/ \E new_height \in Heights :
            /\ IF HeightUnchanged(new_height, prev_height)
               THEN /\ pc' = ScrollReturn
                    /\ IF entry = "main"
                       THEN DropFrame
                       ELSE /\ measured' = Append(measured, new_height)
                            /\ UNCHANGED <<max_scrolls, i, prev_height, scrolls>>
               ELSE /\ measured' = Append(measured, new_height)
                    /\ prev_height' = new_height
                    /\ i' = i + 1
                    /\ pc' = "scroll_for"
                    /\ UNCHANGED <<max_scrolls, scrolls>>
            /\ UNCHANGED <<exc, raised>>
       \/ /\ \E e \in Exceptions : TryRaise("scroll_for_content", e)
          /\ DropFrame
    /\ UNCHANGED <<entry, fetcher_vars, latest_file, report_vars>>

----------------------------------------------------------------------------
(* main: after the scroll *)

\* page.screenshot(after_scroll_<timestamp>.png, full_page=True)
ScreenshotAfter ==
    /\ pc = "screenshot_after"
    /\ \/ /\ screenshots' = screenshots \cup {"after_scroll"}
          /\ pc' = "extract_title"
          /\ UNCHANGED <<exc, raised>>
       \/ /\ \E e \in Exceptions : TryRaise("screenshot_after", e)
          /\ UNCHANGED screenshots
    /\ UNCHANGED <<entry, playwright, browser, close_called, data, output_file,
                   latest_file, result, exit_code, selector, document>>
    /\ UNCHANGED <<scroll_vars, report_vars>>

\* extract_content: page.title() and page.url
ExtractTitle ==
    /\ pc = "extract_title"
    /\ \/ /\ pc' = "extract_evaluate"
          /\ UNCHANGED <<exc, raised>>
       \/ \E e \in Exceptions : TryRaise("extract_content", e)
    /\ UNCHANGED <<entry, fetcher_vars, latest_file, scroll_vars, report_vars>>

\* extract_content: page.evaluate of the extraction script, on the page as it is
ExtractEvaluate ==
    /\ pc = "extract_evaluate"
    /\ \/ /\ \E doc \in Docs : document' = doc
          /\ pc' = "extract_html"
          /\ UNCHANGED <<exc, raised>>
       \/ /\ \E e \in Exceptions : TryRaise("extract_content", e)
          /\ UNCHANGED document
    /\ UNCHANGED <<entry, playwright, browser, close_called, data, output_file,
                   latest_file, screenshots, result, exit_code, selector>>
    /\ UNCHANGED <<scroll_vars, report_vars>>

\* extract_content: page.content(), the returned dict, and data['status'] = 'success';
\* when page.content() raises, the frame and the content it evaluated are dropped
ExtractHtml ==
    /\ pc = "extract_html"
    /\ \/ /\ \E html_length \in HtmlLengths : data' = SuccessData(document, html_length)
          /\ pc' = "finally"
          /\ UNCHANGED <<exc, raised>>
          /\ UNCHANGED document
       \/ /\ \E e \in Exceptions : TryRaise("extract_content", e)
          /\ document' = <<>>
          /\ UNCHANGED data
    /\ UNCHANGED <<entry, playwright, browser, close_called, output_file,
                   latest_file, screenshots, result, exit_code, selector>>
    /\ UNCHANGED <<scroll_vars, report_vars>>

\* `except Exception as e:` builds the error record
Except ==
    /\ pc = "except"
    /\ data' = ErrorData(exc)
    /\ exc' = NoExc
    /\ pc' = "screenshot_error"
    /\ UNCHANGED <<entry, playwright, browser, close_called, output_file, latest_file,
                   screenshots, result, exit_code, selector, document, raised>>
    /\ UNCHANGED <<scroll_vars, report_vars>>

\* page.screenshot(error_<timestamp>.png) in its own try
ScreenshotError ==
    /\ pc = "screenshot_error"
    /\ \/ /\ screenshots' = screenshots \cup {"error"}
          /\ pc' = "finally"
          /\ UNCHANGED <<exc, raised>>
       \/ /\ \E e \in Exceptions :
               IF ErrorScreenshotCatches(e)
               THEN /\ raised' = raised \cup {<<"screenshot_error", "screenshot_error">>}
                    /\ pc' = "finally"
                    /\ UNCHANGED exc
               ELSE /\ raised' = raised \cup {<<"screenshot_error", "none">>}
                    /\ exc' = e
                    /\ pc' = "finally"
          /\ UNCHANGED screenshots
    /\ UNCHANGED <<entry, playwright, browser, close_called, data, output_file,
                   latest_file, result, exit_code, selector, document>>
    /\ UNCHANGED <<scroll_vars, report_vars>>

\* `finally: await browser.close()`; an exception that was not caught goes on
Finally ==
    /\ pc = "finally"
    /\ close_called' = TRUE
    /\ \/ /\ browser' = "closed"
          /\ UNCHANGED <<exc, raised>>
       \/ /\ \E e \in Exceptions :
               /\ exc' = e
               /\ raised' = raised \cup {<<"browser_close", "none">>}
          /\ UNCHANGED browser
    /\ pc' = "playwright_exit"
    /\ UNCHANGED <<entry, playwright, data, output_file, latest_file, screenshots,
                   result, exit_code, selector, document>>
    /\ UNCHANGED <<scroll_vars, report_vars>>

\* The end of `async with async_playwright()`: the driver is stopped
PlaywrightExit ==
    /\ pc = "playwright_exit"
    /\ playwright' = "stopped"
    /\ pc' = IF exc = NoExc THEN "save_output" ELSE "main_raised"
    /\ UNCHANGED <<entry, browser, close_called, exc, data, output_file, latest_file,
                   screenshots, result, exit_code, selector, document, raised>>
    /\ UNCHANGED <<scroll_vars, report_vars>>

\* json.dump(data) to output/threads_<timestamp>.json
SaveOutput ==
    /\ pc = "save_output"
    /\ output_file' = data
    /\ pc' = "save_latest"
    /\ UNCHANGED <<entry, playwright, browser, close_called, exc, data, latest_file,
                   screenshots, result, exit_code, selector, document, raised>>
    /\ UNCHANGED <<scroll_vars, report_vars>>

\* json.dump(data) to output/latest.json, and `return data`
SaveLatest ==
    /\ pc = "save_latest"
    /\ latest_file' = data
    /\ result' = data
    /\ pc' = "main_returned"
    /\ UNCHANGED <<entry, playwright, browser, close_called, exc, data, output_file,
                   screenshots, exit_code, selector, document, raised>>
    /\ UNCHANGED <<scroll_vars, report_vars>>

\* `exit(0 if result.get('status') == 'success' else 1)`
Exit ==
    /\ pc = "main_returned"
    /\ exit_code' = ExitCode(result)
    /\ pc' = "exited"
    /\ UNCHANGED <<entry, playwright, browser, close_called, exc, data, output_file,
                   latest_file, screenshots, result, selector, document, raised>>
    /\ UNCHANGED <<scroll_vars, report_vars>>

\* asyncio.run(main()) raised: the interpreter prints the traceback and exits with 1
UncaughtExit ==
    /\ pc = "main_raised"
    /\ exit_code' = 1
    /\ pc' = "exited"
    /\ UNCHANGED <<entry, playwright, browser, close_called, exc, data, output_file,
                   latest_file, screenshots, result, selector, document, raised>>
    /\ UNCHANGED <<scroll_vars, report_vars>>

----------------------------------------------------------------------------
(* generate_report.py *)

\* JSON values, by type.  A string carries its length; a list its entries.
Absent == [t |-> "absent"]
JNull == [t |-> "null"]
JBool(b) == [t |-> "bool", v |-> b]
JInt(n) == [t |-> "int", v |-> n]
JStr(v, n) == [t |-> "str", v |-> v, len |-> n]
JList(entries) == [t |-> "list", v |-> entries]

EmptyObject == [k \in {} |-> Absent]
Field(k, v) == IF v = Absent THEN EmptyObject ELSE k :> v

\* The object with the given values of the four keys generate_reports defaults;
\* every other key of the record is only printed
Object(posts, posts_count, html_length, status) ==
    Field("posts", posts) @@ Field("posts_count", posts_count)
        @@ Field("html_length", html_length) @@ Field("status", status)

EntryValues == { JStr("post", 5), JStr("post", 250), JStr("post", 600), JNull }

PostsValues ==
    { Absent, JNull, JInt(3), JStr("text", 25) }
        \cup { JList([k \in 1..n |-> e]) : n \in 0..MaxReportPosts, e \in EntryValues }

PostsCountValues == { Absent, JNull, JInt(1) }

HtmlLengthValues ==
    { Absent, JNull, JInt(2048), JInt(1280), JStr("2048", 4), JBool(TRUE) }

StatusValues == { Absent, JNull, JStr("success", 7), JStr("error", 5) }

JsonObjects ==
    { Object(p, c, h, s) : p \in PostsValues, c \in PostsCountValues,
                           h \in HtmlLengthValues, s \in StatusValues }

\* dict.setdefault(key, value)
SetDefault(d, k, v) == IF k \in DOMAIN d THEN d ELSE d @@ (k :> v)

\* `data['date'] = ...` and the four setdefault calls
WithDefaults(d) ==
    LET d1 == ("date" :> JStr("now", 16)) @@ d
        d2 == SetDefault(d1, "posts", JList(<<>>))
        d3 == SetDefault(d2, "posts_count", JInt(0))
        d4 == SetDefault(d3, "html_length", JInt(0))
    IN SetDefault(d4, "status", JStr("unknown", 7))

\* Python's `x / 1024` raises TypeError unless x is a number (bool is one)
DivRaises(x) == x.t \notin {"int", "bool"}
NumberOf(x) == IF x.t = "bool" THEN (IF x.v THEN 1 ELSE 0) ELSE x.v

\* `(html_length / 1024) | round(1)`, in tenths of a KB: Python's round of a
\* float, which rounds an exact tie to the even neighbour
RoundKB(x) ==
    LET n == NumberOf(x) * 10
        q == n \div BytesPerKB
        r == n % BytesPerKB
    IN IF 2 * r < BytesPerKB THEN q
       ELSE IF 2 * r > BytesPerKB THEN q + 1
       ELSE IF q % 2 = 0 THEN q ELSE q + 1

\* The `length` filter is len(): TypeError for None and for numbers
LengthRaises(x) == x.t \in {"null", "int", "bool"}
LengthOf(x) == IF x.t = "str" THEN x.len ELSE Len(x.v)

\* `posts[:n]`: the slice of a list or a string; Jinja's getitem gives Undefined,
\* which iterates as empty, where Python's subscript raises
Sliced(posts, n) ==
    IF posts.t = "list" THEN SubSeq(posts.v, 1, Min(Len(posts.v), n))
    ELSE IF posts.t = "str" THEN [k \in 1..Min(posts.len, n) |-> JStr(posts.v, 1)]
    ELSE <<>>

\* `{{ post[:n] }}{% if post|length > n %}...{% endif %}` for a post that has a length
ShownPost(post, n) ==
    [chars |-> IF post.t = "str" THEN Min(post.len, n) ELSE Min(Len(post.v), n),
     ellipsis |-> LengthOf(post) > n]

\* The body of `{% for post in posts[:n] %}` raises for some post
LoopRaises(posts, n) ==
    \E k \in 1..Len(Sliced(posts, n)) : LengthRaises(Sliced(posts, n)[k])

\* The first n posts, each cut to `chars` characters
ShownPosts(posts, n, chars) ==
    [k \in 1..Len(Sliced(posts, n)) |-> ShownPost(Sliced(posts, n)[k], chars)]

\* Rendering HTML_TEMPLATE raises
HtmlRaises(d) ==
    \/ DivRaises(d["html_length"])
    \/ LoopRaises(d["posts"], HtmlPostsShown)
    \/ LengthRaises(d["posts"])

\* What HTML_TEMPLATE renders
RenderHtml(d) ==
    [status_class |-> IF d["status"] = JStr("success", 7)
                      THEN "status-success" ELSE "status-error",
     status |-> d["status"],
     posts_count |-> d["posts_count"],
     page_size |-> RoundKB(d["html_length"]),
     posts |-> ShownPosts(d["posts"], HtmlPostsShown, HtmlPostChars),
     more |-> IF LengthOf(d["posts"]) > HtmlPostsShown
              THEN LengthOf(d["posts"]) - HtmlPostsShown ELSE 0]

\* Rendering MARKDOWN_TEMPLATE raises
MarkdownRaises(d) ==
    \/ DivRaises(d["html_length"])
    \/ LoopRaises(d["posts"], MdPostsShown)

\* What MARKDOWN_TEMPLATE renders
RenderMarkdown(d) ==
    [status |-> d["status"],
     posts_count |-> d["posts_count"],
     page_size |-> RoundKB(d["html_length"]),
     posts |-> ShownPosts(d["posts"], MdPostsShown, MdPostChars)]

TypeError == [type |-> "TypeError", args |-> <<"unsupported operand or object has no len()">>]

\* generate_report.py as __main__
InitReport ==
    /\ entry = "generate_reports"
    /\ pc = "report_start"
    /\ max_scrolls = CONFIG_max_scrolls
    /\ latest_file \in {NoFile} \cup JsonObjects
    /\ InitCommon

\* REPORTS_DIR.mkdir and `if not latest_file.exists(): return`
ReportStart ==
    /\ pc = "report_start"
    /\ pc' = IF latest_file = NoFile THEN "report_returned" ELSE "report_load"
    /\ UNCHANGED <<entry, fetcher_vars, latest_file, exc, raised, scroll_vars, report_vars>>

\* json.load, the date and the defaults
ReportLoad ==
    /\ pc = "report_load"
    /\ report_data' = WithDefaults(latest_file)
    /\ pc' = "report_html"
    /\ UNCHANGED <<entry, fetcher_vars, latest_file, exc, raised, scroll_vars,
                   html_file, md_file>>

\* Template(HTML_TEMPLATE).render(**data) and the write of reports/index.html
ReportHtml ==
    /\ pc = "report_html"
    /\ IF HtmlRaises(report_data)
       THEN /\ exc' = TypeError
            /\ pc' = "report_raised"
            /\ UNCHANGED html_file
       ELSE /\ html_file' = RenderHtml(report_data)
            /\ pc' = "report_markdown"
            /\ UNCHANGED exc
    /\ UNCHANGED <<entry, fetcher_vars, latest_file, raised, scroll_vars,
                   report_data, md_file>>

\* Template(MARKDOWN_TEMPLATE).render(**data) and the write of reports/report.md
ReportMarkdown ==
    /\ pc = "report_markdown"
    /\ IF MarkdownRaises(report_data)
       THEN /\ exc' = TypeError
            /\ pc' = "report_raised"
            /\ UNCHANGED md_file
       ELSE /\ md_file' = RenderMarkdown(report_data)
            /\ pc' = "report_returned"
            /\ UNCHANGED exc
    /\ UNCHANGED <<entry, fetcher_vars, latest_file, raised, scroll_vars,
                   report_data, html_file>>

ReportNext == ReportStart \/ ReportLoad \/ ReportHtml \/ ReportMarkdown

----------------------------------------------------------------------------
(* Specifications *)

ScrollNext == ScrollFor \/ ScrollTo \/ ScrollPause \/ ScrollMeasure

Next ==
    \/ Start \/ Launch \/ NewContext \/ NewPage \/ Goto
    \/ PopupIsVisible \/ PopupClick \/ PopupWait
    \/ WaitNetworkIdle \/ ScreenshotBefore
    \/ ScrollFor \/ ScrollTo \/ ScrollPause \/ ScrollMeasure
    \/ ScreenshotAfter \/ ExtractTitle \/ ExtractEvaluate \/ ExtractHtml
    \/ Except \/ ScreenshotError \/ Finally \/ PlaywrightExit
    \/ SaveOutput \/ SaveLatest \/ Exit \/ UncaughtExit

Spec == Init /\ [][Next]_vars

SpecScroll == InitScroll /\ [][ScrollNext]_vars

SpecReport == InitReport /\ [][ReportNext]_vars

\* Every awaited call of scroll_for_content returns or raises
FairSpecScroll == SpecScroll /\ WF_vars(ScrollNext)

----------------------------------------------------------------------------
(* Properties of scroll_for_content, under SpecScroll and FairSpecScroll *)

ScrollFinished == pc \in {"returned", "raised"}

\* Two consecutive measurements, the k-th and the one before it, are equal
EqualAt(k) == measured[k] = measured[k - 1]

\* The call returned because the last two measurements were equal
Converged ==
    /\ pc = "returned"
    /\ Len(measured) >= 2
    /\ EqualAt(Len(measured))

\* C3: scroll_for_content ends, and by then it has started at most max_scrolls
\* iterations: at most max_scrolls scrolls and at most max_scrolls measurements,
\* whatever heights the page reports and for every max_scrolls >= 0.
ScrollTerminatesWithinBudget ==
    /\ [](scrolls <= max_scrolls /\ Len(measured) <= max_scrolls /\ i <= max_scrolls)
    /\ <>ScrollFinished

\* C3 witness: the height changed at every measurement and the whole budget of
\* CONFIG['max_scrolls'] iterations was used before the call returned.
NeverStabilizedReturned ==
    /\ pc = "returned"
    /\ max_scrolls = CONFIG_max_scrolls
    /\ Len(measured) = max_scrolls
    /\ \A k \in 2..Len(measured) : ~EqualAt(k)

\* C4: once a measurement equals the one before it, no further iteration is
\* started: that measurement is the last one and the call has returned.
StopsOnEqualHeights ==
    \A k \in 2..Len(measured) :
        EqualAt(k) => (k = Len(measured) /\ pc = "returned")

\* C4 witness: heights 1000, 2000, 2000 with max_scrolls = 5; the call returned
\* in its third iteration (i = 2), before the budget was used.
StoppedEarlyExample ==
    /\ pc = "returned"
    /\ max_scrolls = 5
    /\ measured = <<1000, 2000, 2000>>
    /\ i = 2

\* C10 as claimed: at convergence the scrolls performed are one fewer than the
\* measurements taken.
ScrollsOneFewerThanMeasurements == Converged => scrolls = Len(measured) - 1

\* C10 amended: every iteration scrolls before it measures, so at convergence
\* there are as many scrolls as measurements; 3 for the heights 1000, 2000, 2000.
ScrollsEqualMeasurements ==
    /\ Converged => scrolls = Len(measured)
    /\ (Converged /\ measured = <<1000, 2000, 2000>>) => scrolls = 3

\* C10 witness: convergence on 1000, 2000, 2000 after three scrolls.
ConvergedAfterThreeScrolls ==
    /\ Converged
    /\ max_scrolls = 5
    /\ measured = <<1000, 2000, 2000>>
    /\ scrolls = 3

----------------------------------------------------------------------------
(* Properties of the Fetcher, under Spec *)

\* The steps of main's sequence, from the browser launch through the extraction
MainSequenceSteps ==
    { "launch", "new_context", "new_page", "goto", "wait_networkidle",
      "screenshot_before", "scroll_for_content", "screenshot_after",
      "extract_content" }

\* A step of the main sequence raised an exception that no step-local handler took
FatalFailure ==
    \E r \in raised : r[1] \in MainSequenceSteps /\ r[2] \in {"main", "none"}

PostsOf(d) == IF "posts" \in DOMAIN d THEN d.posts ELSE <<>>
PostsCountOf(d) == IF "posts_count" \in DOMAIN d THEN d.posts_count ELSE 0
IsError(d) == "status" \in DOMAIN d /\ d.status = "error"
IsSuccess(d) == "status" \in DOMAIN d /\ d.status = "success"

\* C1: after a fatal failure anywhere from the browser launch through the
\* extraction, main() has still returned, and one CrawlResult with status=error
\* is in output/threads_<timestamp>.json and in output/latest.json.
FatalFailureStillPersistsResult ==
    (pc = "exited" /\ FatalFailure) =>
        /\ IsError(result)
        /\ output_file = result
        /\ latest_file = result

\* C2: the process never ends with a browser that was launched and on which
\* browser.close() was not called.
BrowserClosedOnEveryExit ==
    (pc = "exited" /\ browser # "none") => close_called

\* C5: a CrawlResult with status=error has a non-empty error field and no posts.
ErrorResultHasMessageAndNoPosts ==
    IsError(data) =>
        /\ "error" \in DOMAIN data
        /\ data.error # ""
        /\ PostsOf(data) = <<>>

\* C6: the exit code is 0 exactly when main() returned a CrawlResult with
\* status=success; it is nonzero when the result has status=error and when the
\* run ended without a result.
ExitCodeReflectsStatus ==
    pc = "exited" =>
        /\ exit_code = 0 <=> IsSuccess(result)
        /\ IsError(data) => exit_code # 0
        /\ data = NoData => exit_code # 0

\* C6 witness: a run that ended with an error-status result and exit code 1.
ExitedWithErrorResult ==
    /\ pc = "exited"
    /\ IsError(result)
    /\ latest_file = result
    /\ exit_code = 1

PopupSteps == {"popup_is_visible", "popup_click", "popup_wait"}

\* Nothing raised inside handle_popups leaves it other than by its normal path
PopupsSwallow ==
    pc \in PopupSteps =>
        /\ pc' \in PopupSteps \cup {"wait_networkidle"}
        /\ data' = data
        /\ exc' = exc

\* Nothing the error screenshot raises changes the error record or stops the run
\* from going on to the finally clause with it
ErrorScreenshotSwallows ==
    pc = "screenshot_error" =>
        /\ pc' = "finally"
        /\ IsError(data')
        /\ data' = data
        /\ exc' = exc

\* C7 as claimed: popup dismissal, the network-idle wait and the error screenshot
\* each swallow every error raised inside them; whatever the network-idle wait
\* raises, the run goes on to the next step.
RecoverableStepsSwallowEverything ==
    [][/\ PopupsSwallow
       /\ pc = "wait_networkidle" => (pc' = "screenshot_before" /\ data' = data)
       /\ ErrorScreenshotSwallows]_vars

\* C7 amended: popup dismissal and the error screenshot swallow every error;
\* the network-idle wait swallows its timeout only: when the run leaves the wait
\* for the error handling, what was raised is not a PlaywrightTimeout.
RecoverableStepsSwallow ==
    [][/\ PopupsSwallow
       /\ pc = "wait_networkidle" =>
            \/ pc' = "screenshot_before" /\ data' = data /\ exc' = exc
            \/ pc' \in {"except", "finally"} /\ exc'.type # "TimeoutError"
       /\ ErrorScreenshotSwallows]_vars

\* C7 witness: a popup attempt raised, the network-idle wait timed out, and the
\* run still ended with status=success and exit code 0.
SucceededAfterSwallowedErrors ==
    /\ pc = "exited"
    /\ exit_code = 0
    /\ IsSuccess(result)
    /\ <<"handle_popups", "handle_popups">> \in raised
    /\ <<"wait_networkidle", "wait_networkidle">> \in raised

\* The elements whose trimmed text is longer than 10 characters
QualifyingElements(doc) ==
    { k \in 1..Len(doc) : doc[k].defined /\ doc[k].len > MinPostLength }

\* posts holds, in document order, the first 50 qualifying elements of doc, each
\* trimmed and cut to 500 characters
FirstQualifying(posts, doc) ==
    LET Q == QualifyingElements(doc)
    IN /\ Len(posts) = Min(Cardinality(Q), MaxPosts)
       /\ \A k \in 1..Len(posts) :
            /\ posts[k].src \in Q
            /\ posts[k].lead = 0
            /\ posts[k].len = Min(doc[posts[k].src].len, MaxPostLength)
            /\ k > 1 => posts[k - 1].src < posts[k].src
       /\ \A j \in Q :
            \/ \E k \in 1..Len(posts) : posts[k].src = j
            \/ Len(posts) = MaxPosts /\ j > posts[MaxPosts].src

\* C8: in every CrawlResult (a field that is absent read as empty, or 0)
\* posts_count is the length of posts, there are at most 50 posts and none is
\* longer than 500 characters; the posts of a success record are the first 50
\* qualifying elements in document order.
PostsBounded ==
    data # NoData =>
        /\ PostsCountOf(data) = Len(PostsOf(data))
        /\ Len(PostsOf(data)) <= MaxPosts
        /\ \A k \in 1..Len(PostsOf(data)) : Length(PostsOf(data)[k]) <= MaxPostLength
        /\ IsSuccess(data) => FirstQualifying(data.posts, document)

\* C8 witness: a success record written from a document with more than 50
\* qualifying elements, with texts longer than 500 characters among them.
CappedAndTruncatedResult ==
    /\ pc = "exited"
    /\ IsSuccess(latest_file)
    /\ Cardinality(QualifyingElements(document)) > MaxPosts
    /\ latest_file.posts_count = MaxPosts
    /\ \E k \in 1..Len(latest_file.posts) :
          /\ document[latest_file.posts[k].src].len > MaxPostLength
          /\ latest_file.posts[k].len = MaxPostLength

----------------------------------------------------------------------------
(* Properties of the Reporter, under SpecReport *)

\* C9: whatever JSON object output/latest.json holds, generate_reports raises
\* nothing, and when it has returned both reports are written from the record
\* with the defaults in place of the absent fields.
RenderingIsTotal ==
    /\ pc # "report_raised"
    /\ (pc = "report_returned" /\ latest_file # NoFile) =>
          /\ html_file # NoFile
          /\ md_file # NoFile
          /\ report_data = WithDefaults(latest_file)

====
